---- MODULE Spec2Model ----
(***************************************************************************)
(* A model of struct Chord (src/src/chord.h): one chord value, its six     *)
(* mutators and the value each of them returns.                            *)
(*                                                                         *)
(* The chord's fields are the variables of the same names.  `op' and `ret' *)
(* record the last mutator called and what it returned; `prev' is the      *)
(* chord as it was just before that call.  `dot_done' and `triplet_done'   *)
(* remember that a dot()/double_dot(), respectively a put_in_triplet(),    *)
(* has returned true at some earlier point of the chord's life, and        *)
(* `successes' counts the calls of dot(), double_dot() and                 *)
(* put_in_triplet() that have returned true.  `other' and `another' are    *)
(* two more chords, the ones equals() compares the chord with.             *)
(***************************************************************************)
EXTENDS Integers, Sequences, FiniteSets, TLC

VARIABLES pitches, duration, triplet, dotted, double_dotted,
          staccato, tenuto, accent, fermata, tied, slurred,
          op, ret, prev, dot_done, triplet_done, successes,
          other, another

vars == <<pitches, duration, triplet, dotted, double_dotted,
          staccato, tenuto, accent, fermata, tied, slurred,
          op, ret, prev, dot_done, triplet_done, successes,
          other, another>>

(***************************************************************************)
(* Bounds of the model.                                                    *)
(***************************************************************************)
\* longest pitch vector handed to the constructor
MaxPitches == 2

(***************************************************************************)
(* constants.h is not part of the sources at hand.  The tick table below   *)
(* follows the description of the table: strictly ordered note values,     *)
(* each twice the previous one, exactly divisible by the denominators the  *)
(* modifiers divide by, with the one-hundred-twenty-eighth note the finest *)
(* value and the dotted sixty-fourth note 3/2 of the sixty-fourth note.    *)
(***************************************************************************)
one_twenty_eighth_note == 3
sixty_fourth_note == 6
dotted_sixty_fourth_note == 9
thirty_second_note == 12
sixteenth_note == 24
eighth_note == 48
quarter_note == 96
half_note == 192
whole_note == 384

\* the note values of the duration table
DurationTable ==
    { one_twenty_eighth_note, sixty_fourth_note, thirty_second_note,
      sixteenth_note, eighth_note, quarter_note, half_note, whole_note }

\* highest pitch number the octave operations accept (the literal 126)
MaxPitch == 126

\* the default constructor's pitches: a C major triad
c_major_chord == <<60, 64, 67>>

\* pitch numbers the constructor is given in this model: both ends of the
\* range, and values within an octave of each end
PitchInputs == {5, 100, 120}

\* the pitch vectors the constructor is given, in any order, and the
\* vectors the description of the operations names
PitchVectors ==
    UNION { [1..n -> PitchInputs] : n \in 0..MaxPitches }
        \cup { c_major_chord, <<115, 120>>, <<5, 64, 67>> }

\* the six performance annotations the constructor is given
AnnotationInputs ==
    { <<FALSE, FALSE, FALSE, FALSE, FALSE, FALSE>>,
      <<TRUE, FALSE, TRUE, FALSE, TRUE, FALSE>> }

(***************************************************************************)
(* The chord as one value.                                                 *)
(***************************************************************************)
Self ==
    [ pitches |-> pitches, duration |-> duration, triplet |-> triplet,
      dotted |-> dotted, double_dotted |-> double_dotted,
      staccato |-> staccato, tenuto |-> tenuto, accent |-> accent,
      fermata |-> fermata, tied |-> tied, slurred |-> slurred ]

\* Chord(): a C major chord of a quarter note, every flag off
DefaultChord ==
    [ pitches |-> c_major_chord, duration |-> quarter_note, triplet |-> FALSE,
      dotted |-> FALSE, double_dotted |-> FALSE,
      staccato |-> FALSE, tenuto |-> FALSE, accent |-> FALSE,
      fermata |-> FALSE, tied |-> FALSE, slurred |-> FALSE ]

\* what a mutator hands back: its return value and the chord it leaves
Result(r, c) == [ ret |-> r, chord |-> c ]

\* the factor 1.5 written like the other two, as divide by 4 then times 6
DivideByFourTimesSix(d) == (d \div 4) * 6

\* duration *= 1.5 : int -> double, multiply, truncate back to int (the
\* durations of the model are never negative, so truncation rounds down)
TimesOneAndAHalf(d) == (3 * d) \div 2

(***************************************************************************)
(* The mutators, as functions from the chord before the call to the return *)
(* value and the chord after it.                                           *)
(***************************************************************************)
\* dot whose first branch turns on double_dotted where it means dotted
dot_sets_wrong_flag(c) ==
    IF ~c.dotted
    THEN IF c.duration = one_twenty_eighth_note
         THEN Result(FALSE, c)
         ELSE Result(TRUE, [c EXCEPT !.double_dotted = TRUE,
                                     !.duration = TimesOneAndAHalf(c.duration)])
    ELSE IF c.dotted /\ ~c.double_dotted
    THEN IF c.duration = dotted_sixty_fourth_note
         THEN Result(FALSE, c)
         ELSE Result(TRUE, [c EXCEPT !.double_dotted = TRUE,
                                     !.duration = (c.duration \div 6) * 7])
    ELSE Result(FALSE, c)

\* dot whose second branch does not test double_dotted
dot_without_double_dotted_test(c) ==
    IF ~c.dotted
    THEN IF c.duration = one_twenty_eighth_note
         THEN Result(FALSE, c)
         ELSE Result(TRUE, [c EXCEPT !.dotted = TRUE,
                                     !.duration = TimesOneAndAHalf(c.duration)])
    ELSE IF c.duration = dotted_sixty_fourth_note
         THEN Result(FALSE, c)
         ELSE Result(TRUE, [c EXCEPT !.double_dotted = TRUE,
                                     !.duration = (c.duration \div 6) * 7])

dot(c) ==
    IF ~c.dotted
    THEN IF c.duration = one_twenty_eighth_note
         THEN Result(FALSE, c)
         ELSE Result(TRUE, [c EXCEPT !.dotted = TRUE,
                                     !.duration = TimesOneAndAHalf(c.duration)])
    ELSE IF c.dotted /\ ~c.double_dotted
    THEN IF c.duration = dotted_sixty_fourth_note
         THEN Result(FALSE, c)
         ELSE Result(TRUE, [c EXCEPT !.double_dotted = TRUE,
                                     !.duration = (c.duration \div 6) * 7])
    ELSE Result(FALSE, c)

\* double_dot without the sixty-fourth-note boundary
double_dot_no_sixty_fourth_check(c) ==
    IF c.dotted
    THEN Result(FALSE, c)
    ELSE IF c.duration = one_twenty_eighth_note
    THEN Result(FALSE, c)
    ELSE Result(TRUE, [c EXCEPT !.dotted = TRUE,
                                !.double_dotted = TRUE,
                                !.duration = (c.duration \div 4) * 7])

\* double_dot refusing only a chord that is already double dotted
double_dot_tests_double_dotted(c) ==
    IF c.double_dotted
    THEN Result(FALSE, c)
    ELSE IF c.duration = one_twenty_eighth_note \/ c.duration = sixty_fourth_note
    THEN Result(FALSE, c)
    ELSE Result(TRUE, [c EXCEPT !.dotted = TRUE,
                                !.double_dotted = TRUE,
                                !.duration = (c.duration \div 4) * 7])

double_dot(c) ==
    IF c.dotted
    THEN Result(FALSE, c)
    ELSE IF c.duration = one_twenty_eighth_note \/ c.duration = sixty_fourth_note
    THEN Result(FALSE, c)
    ELSE Result(TRUE, [c EXCEPT !.dotted = TRUE,
                                !.double_dotted = TRUE,
                                !.duration = (c.duration \div 4) * 7])

\* put_in_triplet that does not look at the triplet flag
put_in_triplet_unguarded(c) ==
    Result(TRUE, [c EXCEPT !.triplet = TRUE,
                           !.duration = (c.duration \div 3) * 2])

put_in_triplet(c) ==
    IF c.triplet
    THEN Result(FALSE, c)
    ELSE Result(TRUE, [c EXCEPT !.triplet = TRUE,
                                !.duration = (c.duration \div 3) * 2])

\* add_octave with the range check made pitch by pitch inside the loop:
\* the pitches before the first one that does not fit are already raised
add_octave_check_in_loop(c) ==
    LET n == Len(c.pitches)
        bad == { i \in 1..n : c.pitches[i] + 12 > MaxPitch }
        stop == IF bad = {} THEN n + 1
                ELSE CHOOSE i \in bad : \A j \in bad : i <= j
    IN  Result(n > 0 /\ bad = {},
               [c EXCEPT !.pitches =
                   [i \in 1..n |-> IF i < stop THEN c.pitches[i] + 12
                                   ELSE c.pitches[i]]])

add_octave(c) ==
    IF Len(c.pitches) = 0 \/ c.pitches[Len(c.pitches)] + 12 > MaxPitch
    THEN Result(FALSE, c)
    ELSE Result(TRUE, [c EXCEPT !.pitches =
                          [i \in 1..Len(c.pitches) |-> c.pitches[i] + 12]])

\* drop_octave whose loop starts at index 1 and so skips pitches[0]
drop_octave_skip_first(c) ==
    IF Len(c.pitches) = 0 \/ c.pitches[1] - 12 < 0
    THEN Result(FALSE, c)
    ELSE Result(TRUE, [c EXCEPT !.pitches =
                          [i \in 1..Len(c.pitches) |->
                              IF i = 1 THEN c.pitches[i] ELSE c.pitches[i] - 12]])

drop_octave(c) ==
    IF Len(c.pitches) = 0 \/ c.pitches[1] - 12 < 0
    THEN Result(FALSE, c)
    ELSE Result(TRUE, [c EXCEPT !.pitches =
                          [i \in 1..Len(c.pitches) |-> c.pitches[i] - 12]])

\* the position of the numerically lowest pitch of a non-empty vector
LowestAt(s) ==
    CHOOSE i \in 1..Len(s) :
        /\ \A j \in 1..Len(s) : s[i] <= s[j]
        /\ \A j \in 1..(i - 1) : s[j] > s[i]

\* invert moving the numerically lowest pitch instead of pitches[0]
invert_lowest_value(c) ==
    IF Len(c.pitches) < 2 \/ c.pitches[LowestAt(c.pitches)] + 12 > MaxPitch
    THEN Result(FALSE, c)
    ELSE LET k == LowestAt(c.pitches)
         IN  Result(TRUE, [c EXCEPT !.pitches =
                 Append(SubSeq(c.pitches, 1, k - 1)
                            \o SubSeq(c.pitches, k + 1, Len(c.pitches)),
                        c.pitches[k] + 12)])

\* invert that appends the raised pitch and forgets to erase pitches[0]
invert_without_erase(c) ==
    IF Len(c.pitches) < 2 \/ c.pitches[1] + 12 > MaxPitch
    THEN Result(FALSE, c)
    ELSE Result(TRUE, [c EXCEPT !.pitches =
                          Append(c.pitches, c.pitches[1] + 12)])

\* invert that moves pitches[0] to the end without raising it
invert_without_octave(c) ==
    IF Len(c.pitches) < 2 \/ c.pitches[1] + 12 > MaxPitch
    THEN Result(FALSE, c)
    ELSE Result(TRUE, [c EXCEPT !.pitches =
                          Tail(Append(c.pitches, c.pitches[1]))])

invert(c) ==
    IF Len(c.pitches) < 2 \/ c.pitches[1] + 12 > MaxPitch
    THEN Result(FALSE, c)
    ELSE Result(TRUE, [c EXCEPT !.pitches =
                          Tail(Append(c.pitches, c.pitches[1] + 12))])

\* equals that stops comparing after fermata, leaving out tied and slurred
equals_stops_at_fermata(a, b) ==
    IF Len(a.pitches) # Len(b.pitches) THEN FALSE
    ELSE IF \E i \in 1..Len(a.pitches) : a.pitches[i] # b.pitches[i] THEN FALSE
    ELSE IF a.duration # b.duration THEN FALSE
    ELSE IF a.triplet # b.triplet THEN FALSE
    ELSE IF a.dotted # b.dotted THEN FALSE
    ELSE IF a.double_dotted # b.double_dotted THEN FALSE
    ELSE IF a.staccato # b.staccato THEN FALSE
    ELSE IF a.tenuto # b.tenuto THEN FALSE
    ELSE IF a.accent # b.accent THEN FALSE
    ELSE IF a.fermata # b.fermata THEN FALSE
    ELSE TRUE

\* a.equals(&b): the sizes, then the pitches index by index, then the ten
\* scalar fields one after the other, false at the first difference
equals(a, b) ==
    IF Len(a.pitches) # Len(b.pitches) THEN FALSE
    ELSE IF \E i \in 1..Len(a.pitches) : a.pitches[i] # b.pitches[i] THEN FALSE
    ELSE IF a.duration # b.duration THEN FALSE
    ELSE IF a.triplet # b.triplet THEN FALSE
    ELSE IF a.dotted # b.dotted THEN FALSE
    ELSE IF a.double_dotted # b.double_dotted THEN FALSE
    ELSE IF a.staccato # b.staccato THEN FALSE
    ELSE IF a.tenuto # b.tenuto THEN FALSE
    ELSE IF a.accent # b.accent THEN FALSE
    ELSE IF a.fermata # b.fermata THEN FALSE
    ELSE IF a.tied # b.tied THEN FALSE
    ELSE IF a.slurred # b.slurred THEN FALSE
    ELSE TRUE

(***************************************************************************)
(* The state machine.                                                      *)
(***************************************************************************)
\* a call of mutator `name' whose outcome is r
Call(name, r) ==
    /\ pitches' = r.chord.pitches
    /\ duration' = r.chord.duration
    /\ triplet' = r.chord.triplet
    /\ dotted' = r.chord.dotted
    /\ double_dotted' = r.chord.double_dotted
    /\ staccato' = r.chord.staccato
    /\ tenuto' = r.chord.tenuto
    /\ accent' = r.chord.accent
    /\ fermata' = r.chord.fermata
    /\ tied' = r.chord.tied
    /\ slurred' = r.chord.slurred
    /\ op' = name
    /\ ret' = r.ret
    /\ prev' = Self
    /\ dot_done' = (dot_done \/ (name \in {"dot", "double_dot"} /\ r.ret))
    /\ triplet_done' = (triplet_done \/ (name = "put_in_triplet" /\ r.ret))
    /\ successes' =
          IF name \in {"dot", "double_dot", "put_in_triplet"} /\ r.ret
          THEN successes + 1
          ELSE successes
    /\ UNCHANGED <<other, another>>

\* Chord() and Chord(pitches, duration, ...) with the modifier flags at
\* their defaults
Init ==
    /\ pitches \in PitchVectors
    /\ duration \in DurationTable
    /\ triplet = FALSE
    /\ dotted = FALSE
    /\ double_dotted = FALSE
    /\ \E a \in AnnotationInputs :
          /\ staccato = a[1]
          /\ tenuto = a[2]
          /\ accent = a[3]
          /\ fermata = a[4]
          /\ tied = a[5]
          /\ slurred = a[6]
    /\ op = "new"
    /\ ret = TRUE
    /\ prev = Self
    /\ dot_done = FALSE
    /\ triplet_done = FALSE
    /\ successes = 0
    /\ other = DefaultChord
    /\ another = DefaultChord

Dot == Call("dot", dot(Self))

DoubleDot == Call("double_dot", double_dot(Self))

PutInTriplet == Call("put_in_triplet", put_in_triplet(Self))

AddOctave == Call("add_octave", add_octave(Self))

DropOctave == Call("drop_octave", drop_octave(Self))

Invert == Call("invert", invert(Self))

Next ==
    \/ Dot
    \/ DoubleDot
    \/ PutInTriplet
    \/ AddOctave
    \/ DropOctave
    \/ Invert

Spec == Init /\ [][Next]_vars

(***************************************************************************)
(* The mutators on a chord constructed with modifier flags of the caller's *)
(* choice, double_dotted only together with dotted.                        *)
(***************************************************************************)
\* Chord(c_major_chord, duration, triplet, dotted, double_dotted)
InitAnyFlags ==
    /\ pitches = c_major_chord
    /\ duration \in DurationTable
    /\ triplet \in BOOLEAN
    /\ dotted \in BOOLEAN
    /\ double_dotted \in BOOLEAN
    /\ double_dotted => dotted
    /\ staccato = FALSE
    /\ tenuto = FALSE
    /\ accent = FALSE
    /\ fermata = FALSE
    /\ tied = FALSE
    /\ slurred = FALSE
    /\ op = "new"
    /\ ret = TRUE
    /\ prev = Self
    /\ dot_done = FALSE
    /\ triplet_done = FALSE
    /\ successes = 0
    /\ other = DefaultChord
    /\ another = DefaultChord

SpecAnyFlags == InitAnyFlags /\ [][Next]_vars

(***************************************************************************)
(* equals() on its own: three chords out of a set in which any two differ  *)
(* in the pitches (their number, their values or their order) or in one or *)
(* two of the scalar fields, and the chord compared with the second one.   *)
(***************************************************************************)
\* the chords handed to equals(): the default chord, and the default chord
\* with one field changed, or two
EqualsInputs ==
    LET d == DefaultChord
    IN  { d,
          [d EXCEPT !.pitches = <<>>],
          [d EXCEPT !.pitches = <<60, 64>>],
          [d EXCEPT !.pitches = <<60, 67, 64>>],
          [d EXCEPT !.pitches = <<60, 64, 72>>],
          [d EXCEPT !.duration = eighth_note],
          [d EXCEPT !.triplet = TRUE],
          [d EXCEPT !.dotted = TRUE],
          [d EXCEPT !.double_dotted = TRUE],
          [d EXCEPT !.staccato = TRUE],
          [d EXCEPT !.tenuto = TRUE],
          [d EXCEPT !.accent = TRUE],
          [d EXCEPT !.fermata = TRUE],
          [d EXCEPT !.tied = TRUE],
          [d EXCEPT !.slurred = TRUE],
          [d EXCEPT !.tied = TRUE, !.slurred = TRUE],
          [d EXCEPT !.pitches = <<60, 64>>, !.tied = TRUE] }

InitEquals ==
    /\ \E c \in EqualsInputs :
          /\ pitches = c.pitches
          /\ duration = c.duration
          /\ triplet = c.triplet
          /\ dotted = c.dotted
          /\ double_dotted = c.double_dotted
          /\ staccato = c.staccato
          /\ tenuto = c.tenuto
          /\ accent = c.accent
          /\ fermata = c.fermata
          /\ tied = c.tied
          /\ slurred = c.slurred
    /\ other \in EqualsInputs
    /\ another \in EqualsInputs
    /\ op = "new"
    /\ ret = TRUE
    /\ prev = Self
    /\ dot_done = FALSE
    /\ triplet_done = FALSE
    /\ successes = 0

\* equals(&other) on the chord: it assigns nothing
Equals ==
    /\ op' = "equals"
    /\ ret' = equals(Self, other)
    /\ prev' = Self
    /\ UNCHANGED <<pitches, duration, triplet, dotted, double_dotted,
                   staccato, tenuto, accent, fermata, tied, slurred,
                   dot_done, triplet_done, successes, other, another>>

NextEquals == Equals

SpecEquals == InitEquals /\ [][NextEquals]_vars

TypeOK ==
    /\ pitches \in Seq(Int)
    /\ duration \in Int
    /\ {triplet, dotted, double_dotted, ret} \subseteq BOOLEAN

(***************************************************************************)
(* Helpers of the properties.                                              *)
(***************************************************************************)
\* the highest and the lowest value of a non-empty pitch vector
Highest(s) == CHOOSE x \in { s[i] : i \in 1..Len(s) } :
                  \A i \in 1..Len(s) : s[i] <= x

Lowest(s) == CHOOSE x \in { s[i] : i \in 1..Len(s) } :
                 \A i \in 1..Len(s) : x <= s[i]

\* vector s with k added at every position
Shifted(s, k) == [i \in 1..Len(s) |-> s[i] + k]

\* every pitch of the vector is a valid pitch number
InRange(s) == \A i \in 1..Len(s) : s[i] \in 0..MaxPitch

\* the step is a call of mutator `name'
Called(name) == op' = name

(***************************************************************************)
(* C1: whenever one of the six mutators returns false, every field of the  *)
(* chord is the same after the call as before it.                          *)
(***************************************************************************)
C1_FalseMeansUnchanged == [][(~ret') => (Self' = Self)]_vars

\* add_octave has refused a chord that has pitches
C1_Witness ==
    /\ op = "add_octave"
    /\ ~ret
    /\ Len(pitches) > 1
    /\ Self = prev

(***************************************************************************)
(* C2: from a chord whose pitches all lie in [0, 126], every pitch stays   *)
(* in [0, 126] under add_octave, drop_octave and invert.                   *)
(***************************************************************************)
C2_PitchRange == InRange(pitches)

(***************************************************************************)
(* C3: add_octave returns false and changes nothing if the vector is empty *)
(* or its highest pitch plus 12 exceeds 126; otherwise it returns true and *)
(* adds 12 at every position, whatever the order of the vector.            *)
(***************************************************************************)
C3_AddOctave ==
    [][Called("add_octave") =>
         IF Len(pitches) = 0 \/ Highest(pitches) + 12 > MaxPitch
         THEN ~ret' /\ Self' = Self
         ELSE ret' /\ Self' = [Self EXCEPT !.pitches = Shifted(pitches, 12)]]_vars

(***************************************************************************)
(* C4: drop_octave returns false and changes nothing if the vector is      *)
(* empty or its lowest pitch minus 12 is negative; otherwise it returns    *)
(* true and subtracts 12 at every position, whatever the order.            *)
(***************************************************************************)
C4_DropOctave ==
    [][Called("drop_octave") =>
         IF Len(pitches) = 0 \/ Lowest(pitches) - 12 < 0
         THEN ~ret' /\ Self' = Self
         ELSE ret' /\ Self' = [Self EXCEPT !.pitches = Shifted(pitches, -12)]]_vars

(***************************************************************************)
(* C5: invert returns false with fewer than two pitches or when the pitch  *)
(* at index 0 plus 12 exceeds 126; otherwise it returns true, and the new  *)
(* vector is the old one without its index-0 element and with that pitch   *)
(* plus 12 appended at the end.                                            *)
(***************************************************************************)
C5_Invert ==
    [][Called("invert") =>
         IF Len(pitches) < 2 \/ pitches[1] + 12 > MaxPitch
         THEN ~ret'
         ELSE /\ ret'
              /\ Len(pitches') = Len(pitches)
              /\ \A i \in 1..(Len(pitches) - 1) : pitches'[i] = pitches[i + 1]
              /\ pitches'[Len(pitches)] = pitches[1] + 12]_vars

\* invert has turned [60, 64, 67] into [64, 67, 72]
C5_Witness ==
    /\ op = "invert"
    /\ ret
    /\ prev.pitches = <<60, 64, 67>>
    /\ pitches = <<64, 67, 72>>

(***************************************************************************)
(* C6: when add_octave returns true and the drop_octave called right after *)
(* it returns true, the chord is again what it was before the two calls:   *)
(* the same pitches at the same positions and every other field unchanged. *)
(***************************************************************************)
C6_OctaveRoundTrip ==
    [][(op = "add_octave" /\ ret /\ Called("drop_octave") /\ ret')
          => (Self' = prev)]_vars

\* add_octave has raised a chord that has pitches, and the drop_octave
\* called next succeeds
C6_Witness ==
    /\ op = "add_octave"
    /\ ret
    /\ Len(pitches) > 1
    /\ pitches = Shifted(prev.pitches, 12)
    /\ drop_octave(Self).ret
    /\ drop_octave(Self).chord = prev

(***************************************************************************)
(* C7: on a chord with dotted = double_dotted = false, two successive      *)
(* dot() calls that both return true leave dotted = double_dotted = true   *)
(* and a duration of 7/4 of the original one; a further dot() returns      *)
(* false and leaves the chord unchanged.                                   *)
(***************************************************************************)
C7_DotRatchet ==
    (~dotted /\ ~double_dotted) =>
        LET first == dot(Self)
            second == dot(first.chord)
            third == dot(second.chord)
        IN  (first.ret /\ second.ret) =>
                /\ second.chord.dotted
                /\ second.chord.double_dotted
                /\ 4 * second.chord.duration = 7 * duration
                /\ ~third.ret
                /\ third.chord = second.chord

(***************************************************************************)
(* C8: for a chord with dotted = double_dotted = false and a duration of   *)
(* the duration table, double_dot() returns true exactly when two          *)
(* successive dot() calls on a copy of the chord both return true, and     *)
(* then the two chords are equal in every field.                           *)
(***************************************************************************)
C8_TwoDotsAreDoubleDot ==
    (/\ op = "double_dot"
     /\ ~prev.dotted
     /\ ~prev.double_dotted
     /\ prev.duration \in DurationTable) =>
        LET first == dot(prev)
            second == dot(first.chord)
        IN  /\ ret <=> (first.ret /\ second.ret)
            /\ ret => (/\ Self = second.chord
                       /\ dotted
                       /\ double_dotted)

\* double_dot has succeeded on an undotted quarter note, and so do two dots
C8_Witness ==
    /\ op = "double_dot"
    /\ ret
    /\ ~prev.dotted
    /\ ~prev.double_dotted
    /\ prev.duration = quarter_note
    /\ dot(prev).ret
    /\ dot(dot(prev).chord).ret
    /\ Self = dot(dot(prev).chord).chord

(***************************************************************************)
(* C9: once a dot() or a double_dot() has returned true, every later       *)
(* double_dot() returns false and changes nothing; double_dot() also       *)
(* returns false and changes nothing when the duration is the              *)
(* one-hundred-twenty-eighth-note or the sixty-fourth-note value.          *)
(***************************************************************************)
C9_DoubleDotOnlyUndotted ==
    [][(/\ Called("double_dot")
        /\ \/ dot_done
           \/ duration \in {one_twenty_eighth_note, sixty_fourth_note})
          => (~ret' /\ Self' = Self)]_vars

\* double_dot has been refused after an earlier dot() that returned true,
\* on a duration that is neither boundary value
C9_Witness ==
    /\ op = "double_dot"
    /\ ~ret
    /\ dot_done
    /\ dotted
    /\ ~double_dotted
    /\ duration \notin {one_twenty_eighth_note, sixty_fourth_note}
    /\ Self = prev

(***************************************************************************)
(* C10: on a chord with triplet = false put_in_triplet() returns true,     *)
(* sets triplet and makes the duration exactly 2/3 of what it was; once it *)
(* has returned true, every later put_in_triplet() returns false and       *)
(* leaves the duration as it is.                                           *)
(***************************************************************************)
C10_TripletOnce ==
    [][Called("put_in_triplet") =>
         /\ ~triplet => (ret' /\ triplet' /\ 3 * duration' = 2 * duration)
         /\ triplet_done => (~ret' /\ duration' = duration /\ triplet')]_vars

\* a second put_in_triplet has been refused, some calls after the first
C10_Witness ==
    /\ op = "put_in_triplet"
    /\ ~ret
    /\ triplet_done
    /\ triplet
    /\ dot_done
    /\ duration = prev.duration

(***************************************************************************)
(* C11: equals(a, b) returns true if and only if the two pitch vectors     *)
(* have the same length and the same value at every index and the ten      *)
(* scalar fields are equal; it is reflexive, symmetric and transitive, and *)
(* it modifies neither chord.                                              *)
(***************************************************************************)
\* the two chords agree field by field
SameFields(a, b) ==
    /\ Len(a.pitches) = Len(b.pitches)
    /\ \A i \in 1..Len(a.pitches) : a.pitches[i] = b.pitches[i]
    /\ a.duration = b.duration
    /\ a.triplet = b.triplet
    /\ a.dotted = b.dotted
    /\ a.double_dotted = b.double_dotted
    /\ a.staccato = b.staccato
    /\ a.tenuto = b.tenuto
    /\ a.accent = b.accent
    /\ a.fermata = b.fermata
    /\ a.tied = b.tied
    /\ a.slurred = b.slurred

C11_Equals ==
    [][Called("equals") =>
         /\ ret' <=> SameFields(Self, other)
         /\ Self' = Self
         /\ other' = other
         /\ equals(Self, Self)
         /\ equals(Self, other) <=> equals(other, Self)
         /\ (equals(Self, other) /\ equals(other, another))
                => equals(Self, another)]_vars

\* equals has returned true on two chords built alike, with pitches and a
\* flag set, next to a third chord that differs from them in that flag
C11_Witness ==
    /\ op = "equals"
    /\ ret
    /\ Self = [DefaultChord EXCEPT !.tied = TRUE]
    /\ other = [DefaultChord EXCEPT !.tied = TRUE]
    /\ another = DefaultChord
    /\ ~equals(other, another)

(***************************************************************************)
(* C12: from a chord with all modifier flags false and a duration of the   *)
(* duration table, the duration stays a strictly positive integer under    *)
(* any sequence of dot, double_dot and put_in_triplet calls.               *)
(***************************************************************************)
C12_DurationPositive == duration > 0

(***************************************************************************)
(* C13: from a chord in which double_dotted implies dotted, every state    *)
(* the mutators reach has double_dotted imply dotted; and the only call    *)
(* that takes both flags from false to true is double_dot.                 *)
(***************************************************************************)
C13_DotFlags ==
    /\ [](double_dotted => dotted)
    /\ [][(~dotted /\ ~double_dotted /\ dotted' /\ double_dotted')
             => Called("double_dot")]_vars

\* a second dot() has succeeded on a chord that was constructed dotted
C13_Witness ==
    /\ op = "dot"
    /\ ret
    /\ prev.dotted
    /\ ~prev.double_dotted
    /\ successes = 1
    /\ dotted
    /\ double_dotted

(***************************************************************************)
(* C14: triplet, dotted and double_dotted never go from true back to       *)
(* false; the dot state only advances Unmodified -> Dotted -> DoubleDotted *)
(* by dot(), or Unmodified -> DoubleDotted by double_dot(); at most three  *)
(* calls of the duration modifiers ever return true on one chord, and once *)
(* all three flags are set every duration modifier returns false.          *)
(***************************************************************************)
\* the three duration modifiers
DurationModifiers == {"dot", "double_dot", "put_in_triplet"}

\* the dot state the two dot flags stand for
DotState(is_dotted, is_double_dotted) ==
    IF is_double_dotted THEN "DoubleDotted"
    ELSE IF is_dotted THEN "Dotted"
    ELSE "Unmodified"

C14_OneWayModifiers ==
    [][/\ triplet => triplet'
       /\ dotted => dotted'
       /\ double_dotted => double_dotted'
       /\ \/ DotState(dotted', double_dotted') = DotState(dotted, double_dotted)
          \/ /\ Called("dot")
             /\ <<DotState(dotted, double_dotted),
                   DotState(dotted', double_dotted')>>
                    \in {<<"Unmodified", "Dotted">>, <<"Dotted", "DoubleDotted">>}
          \/ /\ Called("double_dot")
             /\ DotState(dotted, double_dotted) = "Unmodified"
             /\ DotState(dotted', double_dotted') = "DoubleDotted"
       /\ successes' <= 3
       /\ successes' = 3 => (triplet' /\ dotted' /\ double_dotted')
       /\ (triplet /\ dotted /\ double_dotted /\ op' \in DurationModifiers)
             => (~ret' /\ Self' = Self)]_vars

\* three modifier calls have returned true and a fourth has been refused
C14_Witness ==
    /\ successes = 3
    /\ op \in DurationModifiers
    /\ ~ret
    /\ triplet
    /\ dotted
    /\ double_dotted
    /\ duration > 0

(***************************************************************************)
(* C15: dot, double_dot and put_in_triplet never change the pitches or any *)
(* of the six annotations, the dot operations never change triplet and     *)
(* put_in_triplet never changes dotted or double_dotted; add_octave,       *)
(* drop_octave and invert never change the duration, any of the nine       *)
(* flags, or the number of pitches.                                        *)
(***************************************************************************)
\* the six performance annotations of the chord
Annotations == <<staccato, tenuto, accent, fermata, tied, slurred>>

C15_Frames ==
    [][/\ op' \in DurationModifiers =>
             (pitches' = pitches /\ Annotations' = Annotations)
       /\ op' \in {"dot", "double_dot"} => triplet' = triplet
       /\ Called("put_in_triplet") =>
             (dotted' = dotted /\ double_dotted' = double_dotted)
       /\ op' \in {"add_octave", "drop_octave", "invert"} =>
             /\ duration' = duration
             /\ <<triplet', dotted', double_dotted'>>
                    = <<triplet, dotted, double_dotted>>
             /\ Annotations' = Annotations
             /\ Len(pitches') = Len(pitches)]_vars

\* invert has rearranged the pitches of a dotted triplet chord that
\* carries annotations, and left everything else as it was
C15_Witness ==
    /\ op = "invert"
    /\ ret
    /\ pitches # prev.pitches
    /\ Len(pitches) = Len(prev.pitches)
    /\ dotted
    /\ triplet
    /\ tied
    /\ [Self EXCEPT !.pitches = prev.pitches] = prev

(***************************************************************************)
(* C16: for a chord with n >= 2 pitches, if n successive invert() calls    *)
(* all return true, the pitches are the original ones with 12 added at     *)
(* every position, in the original order: what a successful add_octave     *)
(* would have made of the original.                                        *)
(***************************************************************************)
\* k successive invert() calls on chord c: whether all of them returned
\* true, and the chord they leave
RECURSIVE InvertTimes(_, _)
InvertTimes(c, k) ==
    IF k = 0 THEN Result(TRUE, c)
    ELSE LET before == InvertTimes(c, k - 1)
             last == invert(before.chord)
         IN  Result(before.ret /\ last.ret, last.chord)

C16_InversionCycle ==
    Len(pitches) >= 2 =>
        LET cycle == InvertTimes(Self, Len(pitches))
        IN  cycle.ret =>
                /\ cycle.chord = [Self EXCEPT !.pitches = Shifted(pitches, 12)]
                /\ add_octave(Self).ret => add_octave(Self).chord = cycle.chord

\* one inversion of the C major chord has been made, and three more make
\* a full cycle from there
C16_Witness ==
    /\ op = "invert"
    /\ ret
    /\ prev.pitches = c_major_chord
    /\ pitches = <<64, 67, 72>>
    /\ InvertTimes(Self, 3).ret
    /\ InvertTimes(Self, 3).chord.pitches = <<76, 79, 84>>
    /\ add_octave(Self).ret

(***************************************************************************)
(* C17: for a chord with all modifier flags false and a duration of the    *)
(* duration table on which dot() and put_in_triplet() return true in both  *)
(* orders, dot() then put_in_triplet() leaves the same chord as            *)
(* put_in_triplet() then dot(), with dotted = triplet = true.              *)
(***************************************************************************)
\* chord c was made by put_in_triplet() then dot(), and also by dot() then
\* put_in_triplet(), from the chord `from'
BothOrders(from, c) ==
    /\ dot(from).ret
    /\ put_in_triplet(dot(from).chord).ret
    /\ put_in_triplet(from).ret
    /\ dot(put_in_triplet(from).chord).ret
    /\ put_in_triplet(dot(from).chord).chord = c
    /\ dot(put_in_triplet(from).chord).chord = c

C17_DotTripletCommute ==
    (/\ ~triplet
     /\ ~dotted
     /\ ~double_dotted
     /\ duration \in DurationTable) =>
        LET dot_first == put_in_triplet(dot(Self).chord)
            triplet_first == dot(put_in_triplet(Self).chord)
        IN  (/\ dot(Self).ret
             /\ dot_first.ret
             /\ put_in_triplet(Self).ret
             /\ triplet_first.ret) =>
                /\ dot_first.chord = triplet_first.chord
                /\ dot_first.chord.dotted
                /\ dot_first.chord.triplet
                /\ ~dot_first.chord.double_dotted

\* put_in_triplet() and then dot() have made a dotted triplet chord of an
\* unmodified quarter note, and the other order makes the same chord
C17_Witness ==
    /\ op = "dot"
    /\ ret
    /\ prev.triplet
    /\ ~prev.dotted
    /\ successes = 2
    /\ BothOrders([Self EXCEPT !.duration = quarter_note,
                               !.triplet = FALSE,
                               !.dotted = FALSE], Self)
====
